---- MODULE Spec2Model ----
(***************************************************************************)
(* Hybrid storage tiering engine of cloud-store: the upload path with      *)
(* content-hash dedup (backend/app/routers/file_router.py), the two tier   *)
(* clients (backend/app/storage.py) and the MinIO -> S3 sync job           *)
(* (backend/app/sync_job.py).                                              *)
(*                                                                         *)
(* Strings that the code builds, splits or compares (object keys, URLs)    *)
(* are sequences of tokens; the token "/" is the path separator, so that   *)
(* str.split('/') is computed and not assumed.                             *)
(***************************************************************************)
EXTENDS Integers, Sequences, FiniteSets, TLC

(* ----------------------------- bounds ---------------------------------- *)
\* requests (uploads and deletions) the API receives
MaxUploads == 2

(* --------------------------- input domains ----------------------------- *)
\* concurrent request handlers of the API process
Reqs == {1, 2}
\* the upload requests clients send: authenticated user, body, filename of
\* the multipart part. Two users, two bodies of the same owner, a filename
\* with and without a "/"; "" is the empty body and "big" stands for a body
\* of more than MAX_FILE_SIZE_BYTES bytes
Requests ==
    {[user_id |-> 1, content |-> "abc", filename |-> <<"a">>],
     [user_id |-> 1, content |-> "abc", filename |-> <<"d", "/", "a">>],
     [user_id |-> 1, content |-> "xyz", filename |-> <<"d", "/", "a">>],
     [user_id |-> 2, content |-> "abc", filename |-> <<"a">>],
     [user_id |-> 2, content |-> "", filename |-> <<"a">>],
     [user_id |-> 2, content |-> "big", filename |-> <<"a">>]}
\* values of SYNC_BATCH_SIZE the environment of the job may set
BatchSizes == {1, 2}

NULL == "NULL"

(* ------------------------- pure functions ------------------------------ *)
MAX_FILE_SIZE_MB == 100
MAX_FILE_SIZE_BYTES == MAX_FILE_SIZE_MB * 1024 * 1024

\* len(file_content)
FileSize(c) ==
    CASE c = "abc" -> 3
      [] c = "xyz" -> 3
      [] c = "" -> 0
      [] c = "big" -> MAX_FILE_SIZE_BYTES + 1

\* hashlib.sha256(content).hexdigest(), tabulated on Contents
compute_file_hash(c) ==
    CASE c = "abc" -> "ba7816bf8f01cfea414140de5dae2223b00361a396177a9cb410ff61f20015ad"
      [] c = "xyz" -> "3608bca1e44ea6c4d268eb6db02260269892c0b42b86bbf1e77a6fa16c3c9282"
      [] c = "" -> "e3b0c44298fc1c149afbf4c8996fb92427ae41e4649b934ca495991b7852b855"

\* str(uuid.uuid4()): the n-th uuid drawn by the process
Uuid4(n) == "uuid" \o ToString(n)

\* f"{uuid.uuid4()}-{filename}"
UniqueFilename(n, filename) == <<Uuid4(n), "-">> \o filename

\* f"user-{user_id}/{filename}"
UserScopedKey(user_id, filename) == <<"user-", ToString(user_id), "/">> \o filename

\* s.split('/')[-1]
SplitLast(s) ==
    LET idx == {i \in 1..Len(s) : s[i] = "/"}
        last == CHOOSE i \in idx : \A j \in idx : j <= i
    IN  IF idx = {} THEN s ELSE SubSeq(s, last + 1, Len(s))

\* MinIOClient.get_minio_presigned_url: a signed, time-bounded URL of the key
get_minio_presigned_url(object_key) ==
    <<"http://", "minio:9000", "/", "local-files", "/">> \o object_key
        \o <<"?", "X-Amz-Expires=86400", "&", "X-Amz-Signature">>

\* S3Client.get_s3_public_url
get_s3_public_url(object_key) ==
    <<"https://", "S3_BUCKET", ".s3.", "us-east-1", ".amazonaws.com/">> \o object_key

(* ------------------------------ state ---------------------------------- *)
VARIABLES
    files,          \* table "files": id -> row
    nextId,         \* next value of the files.id sequence
    minio,          \* fast tier bucket: object key -> bytes
    s3,             \* durable tier bucket: object key -> bytes
    uuids,          \* number of uuid4() values drawn so far
    uploads,        \* requests received so far
    req,            \* per request handler: position and locals of the handler
    resp,           \* the response most recently returned by the API
    job,            \* the sync job process: configuration, position and locals
    job2            \* a second sync job process, while it is not scheduled

vars == <<files, nextId, minio, s3, uuids, uploads, req, resp, job, job2>>

apiVars == <<nextId, uuids, uploads, req, resp>>

\* bucket operations
Put(bucket, key, data) == [k \in DOMAIN bucket \cup {key} |-> IF k = key THEN data ELSE bucket[k]]
Remove(bucket, key) == [k \in DOMAIN bucket \ {key} |-> bucket[k]]

EmptyBucket == [k \in {} |-> ""]

IdleReq == [pc |-> "idle"]

NoResponse == [status |-> 0]

EmptyStats == [processed |-> 0, succeeded |-> 0, failed |-> 0, errors |-> <<>>]

IdleJob == [pc |-> "idle"]

Init ==
    /\ files = [i \in {} |-> NULL]
    /\ nextId = 1
    /\ minio = EmptyBucket
    /\ s3 = EmptyBucket
    /\ uuids = 0
    /\ uploads = 0
    /\ req = [r \in Reqs |-> IdleReq]
    /\ resp = NoResponse
    /\ job = IdleJob
    /\ job2 = IdleJob

(* ------------------------- upload_file --------------------------------- *)
\* variant: the dedup query only sees the rows still in the fast tier
MatchingFastOnly(user_id, content_hash) ==
    {i \in DOMAIN files : /\ files[i].user_id = user_id
                          /\ files[i].content_hash = content_hash
                          /\ files[i].storage_location = "minio"}

\* variant: the dedup query matches the content hash for any owner
MatchingAnyOwner(user_id, content_hash) ==
    {i \in DOMAIN files : files[i].content_hash = content_hash}

\* db.query(File).filter(user_id == u, content_hash == h): the matching rows
Matching(user_id, content_hash) ==
    {i \in DOMAIN files : /\ files[i].user_id = user_id
                          /\ files[i].content_hash = content_hash}

\* raise HTTPException(status_code=code)
HttpError(code) == [status |-> code]

\* FileResponse.model_validate(existing_file): the fields of the row
FileResponse(row) ==
    [id |-> row.id, content_hash |-> row.content_hash,
     storage_location |-> row.storage_location]

\* a request is served by the first free handler
Free(r) ==
    /\ req[r].pc = "idle"
    /\ \A q \in Reqs : q < r => req[q].pc # "idle"

\* variant: the bytes are written to MinIO before the dedup query is consulted
DuplicateFoundAfterStore(r, q, matches) ==
    /\ \E i \in matches :
         resp' = [status |-> 201, is_duplicate |-> TRUE,
                  existing_file |-> FileResponse(files[i]),
                  user_id |-> q.user_id]
    /\ minio' = Put(minio, UserScopedKey(q.user_id, UniqueFilename(uuids + 1, q.filename)),
                    q.content)
    /\ UNCHANGED req

\* the dedup hit: the DuplicateFileResponse for one of the matching rows
\* (.first() without ORDER BY: any of them), returned to current_user; nothing
\* is stored
DuplicateFound(r, q, matches) ==
    /\ \E i \in matches :
         resp' = [status |-> 201, is_duplicate |-> TRUE,
                  existing_file |-> FileResponse(files[i]),
                  user_id |-> q.user_id]
    /\ UNCHANGED <<req, minio>>

\* the dedup miss: the handler goes on to the MinIO upload
DuplicateNotFound(r, q, content_hash) ==
    /\ req' = [req EXCEPT ![r] =
                 [pc |-> "put", user_id |-> q.user_id, content |-> q.content,
                  filename |-> q.filename, content_hash |-> content_hash]]
    /\ UNCHANGED <<resp, minio>>

\* await file.read(), the size validation, the hash and the dedup query
UploadBegin(r) ==
    /\ Free(r)
    /\ uploads < MaxUploads
    /\ uploads' = uploads + 1
    /\ \E q \in Requests :
         LET file_size == FileSize(q.content) IN
         IF file_size > MAX_FILE_SIZE_BYTES \/ file_size = 0
         THEN /\ resp' = HttpError(400)
              /\ UNCHANGED <<req, minio>>
         ELSE LET content_hash == compute_file_hash(q.content)
                  matches == Matching(q.user_id, content_hash)
              IN  IF matches # {}
                  THEN DuplicateFound(r, q, matches)
                  ELSE DuplicateNotFound(r, q, content_hash)
    /\ UNCHANGED <<files, nextId, s3, uuids, job, job2>>

\* variant: the upload hands out the key and the URL without storing the bytes
UploadPutPresignOnly(r) ==
    /\ req[r].pc = "put"
    /\ LET unique_filename == UniqueFilename(uuids + 1, req[r].filename)
           object_key == UserScopedKey(req[r].user_id, unique_filename)
       IN  \/ /\ req' = [req EXCEPT ![r] = IdleReq]
              /\ resp' = HttpError(503)
              /\ UNCHANGED <<minio, uuids>>
           \/ /\ uuids' = uuids + 1
              /\ req' = [req EXCEPT ![r] =
                           [pc |-> "commit", user_id |-> req[r].user_id,
                            content |-> req[r].content,
                            original_filename |-> req[r].filename,
                            content_hash |-> req[r].content_hash,
                            object_key |-> object_key,
                            presigned_url |-> get_minio_presigned_url(object_key)]]
              /\ UNCHANGED <<resp, minio>>
    /\ UNCHANGED <<files, nextId, s3, uploads, job, job2>>

\* storage_service.upload_to_minio: put_object, then the presigned URL
UploadPut(r) ==
    /\ req[r].pc = "put"
    /\ LET unique_filename == UniqueFilename(uuids + 1, req[r].filename)
           object_key == UserScopedKey(req[r].user_id, unique_filename)
       IN  \/ \* put_object raises S3Error: 503, nothing stored
              /\ req' = [req EXCEPT ![r] = IdleReq]
              /\ resp' = HttpError(503)
              /\ UNCHANGED <<minio, uuids>>
           \/ \* put_object succeeds, presigned_get_object raises: 503
              /\ minio' = Put(minio, object_key, req[r].content)
              /\ uuids' = uuids + 1
              /\ req' = [req EXCEPT ![r] = IdleReq]
              /\ resp' = HttpError(503)
           \/ /\ minio' = Put(minio, object_key, req[r].content)
              /\ uuids' = uuids + 1
              /\ req' = [req EXCEPT ![r] =
                           [pc |-> "commit", user_id |-> req[r].user_id,
                            content |-> req[r].content,
                            original_filename |-> req[r].filename,
                            content_hash |-> req[r].content_hash,
                            object_key |-> object_key,
                            presigned_url |-> get_minio_presigned_url(object_key)]]
              /\ UNCHANGED resp
    /\ UNCHANGED <<files, nextId, s3, uploads, job, job2>>

\* File(...) as built by upload_file
NewFile(id, q) ==
    [id |-> id,
     user_id |-> q.user_id,
     filename |-> SplitLast(q.object_key),
     original_filename |-> q.original_filename,
     file_size |-> FileSize(q.content),
     content_hash |-> q.content_hash,
     storage_location |-> "minio",
     object_key |-> q.object_key,
     access_url |-> q.presigned_url,
     synced_at |-> NULL]

\* db.add, db.commit, db.refresh and the FileUploadResponse
UploadCommit(r) ==
    /\ req[r].pc = "commit"
    /\ req' = [req EXCEPT ![r] = IdleReq]
    /\ \/ /\ files' = (nextId :> NewFile(nextId, req[r])) @@ files
          /\ nextId' = nextId + 1
          /\ resp' = [status |-> 201, is_duplicate |-> FALSE, id |-> nextId,
                      storage_location |-> "minio"]
       \/ \* db.commit raises: the generic handler answers 500
          /\ resp' = HttpError(500)
          /\ UNCHANGED <<files, nextId>>
    /\ UNCHANGED <<minio, s3, uuids, uploads, job, job2>>

Upload(r) == UploadBegin(r) \/ UploadPut(r) \/ UploadCommit(r)

(* ------------------------- delete_file --------------------------------- *)
\* the users a token can authenticate
Users == {q.user_id : q \in Requests}

\* verify_token, the lookup of the row, the 404 and the ownership check; the
\* handler keeps the File it loaded
DeleteBegin(r) ==
    /\ Free(r)
    /\ uploads < MaxUploads
    /\ uploads' = uploads + 1
    /\ \E user_id \in Users, file_id \in 1..nextId :
         \/ \* invalid or expired token
            /\ resp' = HttpError(401)
            /\ UNCHANGED req
         \/ IF file_id \notin DOMAIN files
            THEN /\ resp' = HttpError(404)
                 /\ UNCHANGED req
            ELSE IF files[file_id].user_id # user_id
            THEN /\ resp' = HttpError(403)
                 /\ UNCHANGED req
            ELSE /\ req' = [req EXCEPT ![r] =
                              [pc |-> "delete_storage", file |-> files[file_id]]]
                 /\ UNCHANGED resp
    /\ UNCHANGED <<files, nextId, minio, s3, uuids, job, job2>>

\* variant: a failed storage delete ends the request with a 500
DeleteStorageAborts(r) ==
    /\ req[r].pc = "delete_storage"
    /\ LET file == req[r].file IN
       \/ /\ IF file.storage_location = "minio"
             THEN minio' = Remove(minio, file.object_key) /\ UNCHANGED s3
             ELSE s3' = Remove(s3, file.object_key) /\ UNCHANGED minio
          /\ req' = [req EXCEPT ![r] =
                       [pc |-> "delete_commit", file |-> file, error_logged |-> FALSE]]
          /\ UNCHANGED resp
       \/ /\ req' = [req EXCEPT ![r] = IdleReq]
          /\ resp' = HttpError(500)
          /\ UNCHANGED <<minio, s3>>
    /\ UNCHANGED <<files, nextId, uuids, uploads, job, job2>>

\* the storage delete in the tier the loaded File names, at file.object_key:
\* delete_from_minio logs an S3Error and returns False, any other exception is
\* logged by delete_file; the handler goes on to the database either way
DeleteStorage(r) ==
    /\ req[r].pc = "delete_storage"
    /\ LET file == req[r].file IN
       \/ /\ IF file.storage_location = "minio"
             THEN minio' = Remove(minio, file.object_key) /\ UNCHANGED s3
             ELSE s3' = Remove(s3, file.object_key) /\ UNCHANGED minio
          /\ req' = [req EXCEPT ![r] =
                       [pc |-> "delete_commit", file |-> file, error_logged |-> FALSE]]
       \/ \* remove_object or delete_object raises
          /\ req' = [req EXCEPT ![r] =
                       [pc |-> "delete_commit", file |-> file, error_logged |-> TRUE]]
          /\ UNCHANGED <<minio, s3>>
    /\ UNCHANGED <<files, nextId, uuids, uploads, resp, job, job2>>

\* variant: the deletion marks the record and leaves the row in the table
DeleteCommitKeepsRow(r) ==
    /\ req[r].pc = "delete_commit"
    /\ req' = [req EXCEPT ![r] = IdleReq]
    /\ \/ resp' = [status |-> 200, message |-> "File deleted successfully",
                   file_id |-> req[r].file.id,
                   error_logged |-> req[r].error_logged]
       \/ resp' = HttpError(500)
    /\ UNCHANGED <<files, nextId, minio, s3, uuids, uploads, job, job2>>

\* db.delete(file), db.commit() and the response; error_logged records whether
\* the handler wrote an error to the log while serving the request
DeleteCommit(r) ==
    /\ req[r].pc = "delete_commit"
    /\ req' = [req EXCEPT ![r] = IdleReq]
    /\ \/ /\ files' = [i \in DOMAIN files \ {req[r].file.id} |-> files[i]]
          /\ resp' = [status |-> 200, message |-> "File deleted successfully",
                      file_id |-> req[r].file.id,
                      error_logged |-> req[r].error_logged]
       \/ \* commit raises: the exception leaves the handler
          /\ resp' = HttpError(500)
          /\ UNCHANGED files
    /\ UNCHANGED <<nextId, minio, s3, uuids, uploads, job, job2>>

Delete(r) == DeleteBegin(r) \/ DeleteStorage(r) \/ DeleteCommit(r)

(* --------------------------- sync_job ---------------------------------- *)
\* S3Client.upload_to_s3: max_retries
max_retries == 3

\* datetime.utcnow(): some instant, never NULL
utcnow == "utcnow"

\* the orders in which .all() may return the rows of a set of ids
Orderings(S) ==
    {q \in [1..Cardinality(S) -> S] : \A a, b \in 1..Cardinality(S) : a # b => q[a] # q[b]}

\* variant: a batch runs one item into the next batch
BatchOverlapping(j) ==
    SubSeq(j.files_to_sync, j.i + 1,
           IF j.i + j.SYNC_BATCH_SIZE + 1 < Len(j.files_to_sync)
           THEN j.i + j.SYNC_BATCH_SIZE + 1 ELSE Len(j.files_to_sync))

\* files_to_sync[i:i + SYNC_BATCH_SIZE], i counted from 0
Batch(j) ==
    SubSeq(j.files_to_sync, j.i + 1,
           IF j.i + j.SYNC_BATCH_SIZE < Len(j.files_to_sync)
           THEN j.i + j.SYNC_BATCH_SIZE ELSE Len(j.files_to_sync))

\* total_stats[...] += batch_stats[...], errors.extend
Aggregate(total, batch) ==
    [processed |-> total.processed + batch.processed,
     succeeded |-> total.succeeded + batch.succeeded,
     failed |-> total.failed + batch.failed,
     errors |-> total.errors \o batch.errors]

Running == {"item", "put", "commit", "cleanup"}

\* the job is about to process item k (from 1) of the batch that starts at i
AtItem(j, i, k, stats, total) ==
    [pc |-> "item",
     DELETE_FROM_MINIO_AFTER_SYNC |-> j.DELETE_FROM_MINIO_AFTER_SYNC,
     SYNC_BATCH_SIZE |-> j.SYNC_BATCH_SIZE,
     files_to_sync |-> j.files_to_sync, i |-> i, k |-> k,
     stats |-> stats, total_stats |-> total, loaded |-> <<>>]

\* the job holds the row `file` of item k, in the state `pc` of the transfer
InItem(j, pc, stats, file, file_data) ==
    [pc |-> pc,
     DELETE_FROM_MINIO_AFTER_SYNC |-> j.DELETE_FROM_MINIO_AFTER_SYNC,
     SYNC_BATCH_SIZE |-> j.SYNC_BATCH_SIZE,
     files_to_sync |-> j.files_to_sync, i |-> j.i, k |-> j.k,
     stats |-> stats, total_stats |-> j.total_stats,
     file |-> file, file_data |-> file_data, attempt |-> 0]

\* main returned or called sys.exit: what the run selected and what it logged
Exited(j, exit_code, total) ==
    [pc |-> "exited", exit_code |-> exit_code,
     DELETE_FROM_MINIO_AFTER_SYNC |-> j.DELETE_FROM_MINIO_AFTER_SYNC,
     files_to_sync |-> j.files_to_sync,
     total_stats |-> total]

\* the end of one iteration of "for file in files": the next file of the
\* batch, or the return of process_file_batch, the aggregation in main and
\* the next batch, or the end of main
Continue(j, stats) ==
    IF j.k < Len(Batch(j))
    THEN AtItem(j, j.i, j.k + 1, stats, j.total_stats)
    ELSE LET total == Aggregate(j.total_stats, stats) IN
         IF j.i + j.SYNC_BATCH_SIZE < Len(j.files_to_sync)
         THEN AtItem(j, j.i + j.SYNC_BATCH_SIZE, 1, EmptyStats, total)
         ELSE Exited(j, 0, total)

\* what one call of boto3's put_object can do: store the object, raise a
\* ClientError (an error response of the service, here the permanent
\* AccessDenied; the loop treats every ClientError alike), or raise another
\* exception (no connection to the endpoint: a BotoCoreError, which is not a
\* ClientError)
S3Outcomes == {"ok", "AccessDenied", "EndpointConnectionError"}

ClientError == {"AccessDenied"}

\* str(e) of the exceptions an item can raise
MinioGetError == "Failed to retrieve file from MinIO"
ObjectDeletedError == "ObjectDeletedError"
StaleDataError == "StaleDataError"
S3PutError(e) == "Failed to upload to S3: " \o e
CommitError == "commit failed"

\* the "except Exception" branch of process_file_batch
Failed(stats, file_id, e) ==
    [stats EXCEPT !.failed = @ + 1,
                  !.errors = Append(@, <<"Failed to sync file", file_id, e>>)]

\* variant: the query has no filter on storage_location
EligibleAll == DOMAIN files

\* the rows main selects: storage_location == "minio"
Eligible == {i \in DOMAIN files : files[i].storage_location = "minio"}

\* a new job process: the configuration is read from the environment, then
\* main up to the first item: connect, query the rows in MinIO, first batch
JobStart ==
    /\ job.pc \in {"idle", "exited"}
    /\ \E del \in BOOLEAN, size \in BatchSizes :
         LET j == [DELETE_FROM_MINIO_AFTER_SYNC |-> del, SYNC_BATCH_SIZE |-> size,
                   files_to_sync |-> <<>>] IN
         \/ \* create_engine, the session or the query raises: sys.exit(1)
            job' = Exited(j, 1, EmptyStats)
         \/ IF Eligible = {}
            THEN job' = Exited(j, 0, EmptyStats)
            ELSE \E q \in Orderings(Eligible) :
                    job' = [AtItem([j EXCEPT !.files_to_sync = q], 0, 1,
                                   EmptyStats, EmptyStats)
                              EXCEPT !.loaded = <<files[q[1]]>>]
    /\ UNCHANGED <<files, minio, s3, apiVars, job2>>

\* the id of the row the job is at
CurrentId(j) == Batch(j)[j.k]

\* variant: a row whose object cannot be fetched is dropped as stale
JobFetchDropsRow ==
    /\ job.pc = "item"
    /\ LET file == files[CurrentId(job)]
           stats == [job.stats EXCEPT !.processed = @ + 1]
       IN  \/ /\ file.object_key \in DOMAIN minio
              /\ job' = InItem(job, "put", stats, file, minio[file.object_key])
              /\ UNCHANGED files
           \/ /\ job' = Continue(job, Failed(stats, file.id, MinioGetError))
              /\ files' = [i \in DOMAIN files \ {file.id} |-> files[i]]
    /\ UNCHANGED <<minio, s3, apiVars, job2>>

\* variant: the except branch returns from the job instead of continuing
JobFetchAborts ==
    /\ job.pc = "item"
    /\ LET file == files[CurrentId(job)]
           stats == [job.stats EXCEPT !.processed = @ + 1]
       IN  \/ /\ file.object_key \in DOMAIN minio
              /\ job' = InItem(job, "put", stats, file, minio[file.object_key])
           \/ job' = Exited(job, 0, Aggregate(job.total_stats,
                                               Failed(stats, file.id, MinioGetError)))
    /\ UNCHANGED <<files, minio, s3, apiVars, job2>>

\* an exception raised while the session reloads a row that a deletion has
\* removed: the except branch of the item formats file.id, which reloads the
\* row again; the item is counted as failed if that works, and the exception
\* leaves process_file_batch for the handler of main if it does not
RowGone(j, stats, file_id, e) ==
    {Continue(j, Failed(stats, file_id, e)),
     Exited(j, 1, Aggregate(j.total_stats, [stats EXCEPT !.failed = @ + 1]))}

\* variant: a failed fetch is ignored and the item goes on with no bytes
JobFetchIgnoresFailure ==
    /\ job.pc = "item"
    /\ LET stats == [job.stats EXCEPT !.processed = @ + 1]
           file == files[CurrentId(job)]
       IN  \/ /\ file.object_key \in DOMAIN minio
              /\ job' = InItem(job, "put", stats, file, minio[file.object_key])
           \/ job' = InItem(job, "put", stats, file, "")
    /\ UNCHANGED <<files, minio, s3, apiVars, job2>>

\* stats["processed"] += 1 and MinIOClient.get_file_from_minio. The File
\* objects hold what the query of main loaded until the first commit or
\* rollback of the session expires them: the first item of a run works on the
\* row as loaded, a later item reloads its row
JobFetch ==
    /\ job.pc = "item"
    /\ LET stats == [job.stats EXCEPT !.processed = @ + 1] IN
       IF job.loaded = <<>> /\ CurrentId(job) \notin DOMAIN files
       THEN job' \in RowGone(job, stats, CurrentId(job), ObjectDeletedError)
       ELSE LET file == IF job.loaded = <<>> THEN files[CurrentId(job)] ELSE job.loaded[1] IN
            \/ /\ file.object_key \in DOMAIN minio
               /\ job' = InItem(job, "put", stats, file, minio[file.object_key])
            \/ \* get_object raises S3Error (missing key or transport fault)
               job' = Continue(job, Failed(stats, file.id, MinioGetError))
    /\ UNCHANGED <<files, minio, s3, apiVars, job2>>

\* variant: every transfer writes under a key of its own
S3ObjectKeyPerAttempt(file) ==
    UserScopedKey(file.user_id,
                  <<ToString(Cardinality(DOMAIN s3)), "-">> \o SplitLast(file.object_key))

\* the key S3Client.upload_to_s3 writes for the file being transferred
S3ObjectKey(file) == UserScopedKey(file.user_id, SplitLast(file.object_key))

\* the assignments of process_file_batch to the row held by the session
Assigned(file, s3_url) ==
    [file EXCEPT !.storage_location = "s3", !.access_url = s3_url, !.synced_at = utcnow]

\* variant: process_file_batch only catches ClientError, another exception
\* reaches the handler of main
JobPutUncaught ==
    /\ job.pc = "put"
    /\ \E outcome \in S3Outcomes :
         IF outcome = "ok"
         THEN LET s3_object_key == S3ObjectKey(job.file)
                  s3_url == get_s3_public_url(s3_object_key)
              IN  /\ s3' = Put(s3, s3_object_key, job.file_data)
                  /\ job' = InItem(job, "commit", job.stats,
                                    Assigned(job.file, s3_url), job.file_data)
         ELSE /\ IF outcome \in ClientError
                 THEN IF job.attempt = max_retries - 1
                      THEN job' = Continue(job, Failed(job.stats, job.file.id,
                                                       S3PutError(outcome)))
                      ELSE job' = [job EXCEPT !.attempt = @ + 1]
                 ELSE job' = Exited(job, 1, Aggregate(job.total_stats, job.stats))
              /\ UNCHANGED s3
    /\ UNCHANGED <<files, minio, apiVars, job2>>

\* one iteration of the retry loop of S3Client.upload_to_s3, called by
\* transfer_file_to_s3; after the successful put, get_s3_public_url and the
\* assignments to the row. A ClientError is retried until attempt
\* max_retries - 1 and is then wrapped; any other exception passes through
\* both "except ClientError" clauses at once
JobPut ==
    /\ job.pc = "put"
    /\ \E outcome \in S3Outcomes :
         IF outcome = "ok"
         THEN LET s3_object_key == S3ObjectKey(job.file)
                  s3_url == get_s3_public_url(s3_object_key)
              IN  /\ s3' = Put(s3, s3_object_key, job.file_data)
                  /\ job' = InItem(job, "commit", job.stats,
                                    Assigned(job.file, s3_url), job.file_data)
         ELSE /\ IF outcome \in ClientError
                 THEN IF job.attempt = max_retries - 1
                      THEN job' = Continue(job, Failed(job.stats, job.file.id,
                                                       S3PutError(outcome)))
                      ELSE job' = [job EXCEPT !.attempt = @ + 1]
                 ELSE job' = Continue(job, Failed(job.stats, job.file.id, outcome))
              /\ UNCHANGED s3
    /\ UNCHANGED <<files, minio, apiVars, job2>>

\* variant: the UPDATE leaves synced_at out
FlushWithoutSyncedAt(row, file) ==
    [row EXCEPT !.storage_location = file.storage_location,
                !.access_url = file.access_url]

\* variant: the UPDATE is held back for a commit at the end of the batch
FlushDeferred(row, file) == row

\* variant: the UPDATE leaves storage_location out
FlushKeepsTier(row, file) ==
    [row EXCEPT !.access_url = file.access_url, !.synced_at = file.synced_at]

\* the UPDATE that session.commit() flushes for the row
Flush(row, file) ==
    [row EXCEPT !.storage_location = file.storage_location,
                !.access_url = file.access_url,
                !.synced_at = file.synced_at]

\* variant: the cleanup also runs when the commit failed
JobCommitCleanupAlways ==
    /\ job.pc = "commit"
    /\ \/ LET stats == [job.stats EXCEPT !.succeeded = @ + 1] IN
          /\ files' = [files EXCEPT ![job.file.id] = Flush(@, job.file)]
          /\ IF job.DELETE_FROM_MINIO_AFTER_SYNC
             THEN job' = InItem(job, "cleanup", stats, job.file, job.file_data)
             ELSE job' = Continue(job, stats)
       \/ /\ IF job.DELETE_FROM_MINIO_AFTER_SYNC
             THEN job' = InItem(job, "cleanup",
                                Failed(job.stats, job.file.id, CommitError),
                                job.file, job.file_data)
             ELSE job' = Continue(job, Failed(job.stats, job.file.id, CommitError))
          /\ UNCHANGED files
    /\ UNCHANGED <<minio, s3, apiVars, job2>>

\* variant: the exception of a failed commit is not caught per item and
\* reaches the handler of main
JobCommitUncaught ==
    /\ job.pc = "commit"
    /\ \/ LET stats == [job.stats EXCEPT !.succeeded = @ + 1] IN
          /\ files' = [files EXCEPT ![job.file.id] = Flush(@, job.file)]
          /\ IF job.DELETE_FROM_MINIO_AFTER_SYNC
             THEN job' = InItem(job, "cleanup", stats, job.file, job.file_data)
             ELSE job' = Continue(job, stats)
       \/ /\ job' = Exited(job, 1, Aggregate(job.total_stats, job.stats))
          /\ UNCHANGED files
    /\ UNCHANGED <<minio, s3, apiVars, job2>>

\* variant: the cleanup is issued whatever DELETE_FROM_MINIO_AFTER_SYNC says
JobCommitIgnoresFlag ==
    /\ job.pc = "commit"
    /\ \/ LET stats == [job.stats EXCEPT !.succeeded = @ + 1] IN
          /\ files' = [files EXCEPT ![job.file.id] = Flush(@, job.file)]
          /\ job' = InItem(job, "cleanup", stats, job.file, job.file_data)
       \/ /\ job' = Continue(job, Failed(job.stats, job.file.id, CommitError))
          /\ UNCHANGED files
    /\ UNCHANGED <<minio, s3, apiVars, job2>>

\* variant: succeeded is counted before the commit is attempted
JobCommitCountsEarly ==
    /\ job.pc = "commit"
    /\ LET stats == [job.stats EXCEPT !.succeeded = @ + 1] IN
       \/ /\ job.file.id \in DOMAIN files
          /\ files' = [files EXCEPT ![job.file.id] = Flush(@, job.file)]
          /\ IF job.DELETE_FROM_MINIO_AFTER_SYNC
             THEN job' = InItem(job, "cleanup", stats, job.file, job.file_data)
             ELSE job' = Continue(job, stats)
       \/ /\ job' = Continue(job, Failed(stats, job.file.id, CommitError))
          /\ UNCHANGED files
    /\ UNCHANGED <<minio, s3, apiVars, job2>>

\* session.commit() and stats["succeeded"] += 1, or the rollback. The UPDATE
\* of a row that a deletion has removed matches no row and the flush raises
JobCommit ==
    /\ job.pc = "commit"
    /\ \/ LET stats == [job.stats EXCEPT !.succeeded = @ + 1] IN
          /\ job.file.id \in DOMAIN files
          /\ files' = [files EXCEPT ![job.file.id] = Flush(@, job.file)]
          /\ IF job.DELETE_FROM_MINIO_AFTER_SYNC
             THEN job' = InItem(job, "cleanup", stats, job.file, job.file_data)
             ELSE job' = Continue(job, stats)
       \/ \* commit raises: session.rollback()
          /\ job' = Continue(job, Failed(job.stats, job.file.id, CommitError))
          /\ UNCHANGED files
       \/ /\ job.file.id \notin DOMAIN files
          /\ job' \in RowGone(job, job.stats, job.file.id, StaleDataError)
          /\ UNCHANGED files
    /\ UNCHANGED <<minio, s3, apiVars, job2>>

\* variant: a failed cleanup reverts the row to the fast tier
JobCleanupReverts ==
    /\ job.pc = "cleanup"
    /\ \/ /\ minio' = Remove(minio, files[job.file.id].object_key)
          /\ UNCHANGED files
       \/ /\ files' = [files EXCEPT ![job.file.id].storage_location = "minio"]
          /\ UNCHANGED minio
    /\ job' = Continue(job, job.stats)
    /\ UNCHANGED <<s3, apiVars, job2>>

\* variant: a failed cleanup is handled by the except branch of the item
JobCleanupFailsItem ==
    /\ job.pc = "cleanup"
    /\ \/ /\ minio' = Remove(minio, files[job.file.id].object_key)
          /\ job' = Continue(job, job.stats)
       \/ /\ UNCHANGED minio
          /\ job' = Continue(job, Failed(job.stats, job.file.id, "Failed to delete"))
    /\ UNCHANGED <<files, s3, apiVars, job2>>

\* storage_service.delete_from_minio(file.object_key); file.object_key is
\* reloaded after the commit, which raises inside the inner try when a deletion
\* has removed the row
JobCleanup ==
    /\ job.pc = "cleanup"
    /\ \/ /\ job.file.id \in DOMAIN files
          /\ minio' = Remove(minio, files[job.file.id].object_key)
       \/ \* remove_object raises S3Error: logged, False returned
          UNCHANGED minio
    /\ job' = Continue(job, job.stats)
    /\ UNCHANGED <<files, s3, apiVars, job2>>

\* what is left of a job process that died: no process, and the log file with
\* the rows it had selected, where it was and what it had counted
Crashed(j) ==
    [pc |-> "idle", at |-> j.pc, files_to_sync |-> j.files_to_sync,
     succeeded |-> j.total_stats.succeeded + j.stats.succeeded,
     failed |-> j.total_stats.failed + j.stats.failed]

\* the job process dies (kill, power loss) wherever it is
JobCrash ==
    /\ job.pc \in Running
    /\ job' = Crashed(job)
    /\ UNCHANGED <<files, minio, s3, apiVars, job2>>

Sync == JobStart \/ JobFetch \/ JobPut \/ JobCommit \/ JobCleanup \/ JobCrash

(* ------------------------- specifications ------------------------------ *)
\* the API serves one upload at a time, concurrently with the sync job
Next == Upload(1) \/ Sync

Spec == Init /\ [][Next]_vars

\* the API serves uploads concurrently (one handler per request in flight)
NextRace == (\E r \in Reqs : Upload(r)) \/ Sync

\* uploads, deletions and the job
NextDelete == Upload(1) \/ Delete(1) \/ Sync

SpecDelete == Init /\ [][NextDelete]_vars

SpecRace == Init /\ [][NextRace]_vars

\* the cron entry starts the job again and again and the database is reachable
\* at some of the starts
Connected == JobStart /\ ~(job'.pc = "exited" /\ job'.exit_code = 1)

\* a running job process takes its next step unless it is killed
JobStep == JobFetch \/ JobPut \/ JobCommit \/ JobCleanup

\* the successful outcomes of the three operations of a transfer
FetchOk == JobFetch /\ job'.pc = "put"
PutOk == JobPut /\ job'.pc = "commit"
CommitOk == JobCommit /\ files' # files

\* the job is scheduled fairly, and a fetch, a durable put and a commit that are
\* tried again and again succeed at some point
Fairness ==
    /\ WF_vars(Connected)
    /\ WF_vars(JobStep)
    /\ SF_vars(FetchOk)
    /\ SF_vars(PutOk)
    /\ SF_vars(CommitOk)

\* the requests that pass the size validation
ValidRequests ==
    {q \in Requests : FileSize(q.content) > 0 /\ FileSize(q.content) <= MAX_FILE_SIZE_BYTES}

\* the valid requests in some fixed order
RequestOrder ==
    CHOOSE f \in [1..Cardinality(ValidRequests) -> ValidRequests] :
        \A a, b \in 1..Cardinality(ValidRequests) : a # b => f[a] # f[b]

\* the sequences of uploads that each stored a new row: no two of the same
\* owner with the same bytes; the order of arrival of two requests makes no
\* difference to the job, so one order stands for all
UploadSeqs ==
    UNION {{[i \in 1..n |-> RequestOrder[ix[i]]] :
               ix \in {jx \in [1..n -> 1..Cardinality(ValidRequests)] :
                          /\ \A a, b \in 1..n : a < b => jx[a] < jx[b]
                          /\ \A a, b \in 1..n :
                                (/\ RequestOrder[jx[a]].user_id = RequestOrder[jx[b]].user_id
                                 /\ RequestOrder[jx[a]].content = RequestOrder[jx[b]].content)
                                => a = b}} : n \in 0..MaxUploads}

\* the object key of the i-th upload
StoredKey(i, q) == UserScopedKey(q.user_id, UniqueFilename(i, q.filename))

\* the row the i-th upload inserted
StoredRow(i, q) ==
    NewFile(i, [user_id |-> q.user_id, content |-> q.content,
                original_filename |-> q.filename,
                content_hash |-> compute_file_hash(q.content),
                object_key |-> StoredKey(i, q),
                presigned_url |-> get_minio_presigned_url(StoredKey(i, q))])

\* the system after a number of uploads were served one after the other, before
\* the first run of the job
InitQuiet ==
    \E qs \in UploadSeqs :
        /\ files = [i \in 1..Len(qs) |-> StoredRow(i, qs[i])]
        /\ nextId = Len(qs) + 1
        /\ minio = [k \in {StoredKey(i, qs[i]) : i \in 1..Len(qs)} |->
                      qs[CHOOSE i \in 1..Len(qs) : StoredKey(i, qs[i]) = k].content]
        /\ s3 = EmptyBucket
        /\ uuids = Len(qs)
        /\ uploads = Len(qs)
        /\ req = [r \in Reqs |-> IdleReq]
        /\ resp = IF Len(qs) = 0 THEN NoResponse
                  ELSE [status |-> 201, is_duplicate |-> FALSE, id |-> Len(qs),
                        storage_location |-> "minio"]
        /\ job = IdleJob
        /\ job2 = IdleJob

\* no new upload arrives: only the job, started by cron again and again, runs
SpecQuiet == InitQuiet /\ [][Sync]_vars /\ Fairness

\* the row of a record that the job has made durable
SyncedRow(row) == Flush(row, Assigned(row, get_s3_public_url(S3ObjectKey(row))))

\* the system with one record, stored by an earlier upload and left by the job
\* in the fast tier, in the durable tier with the fast copy kept, or in the
\* durable tier with the fast copy cleaned up; uploads counts the requests
\* received from here on
InitStored ==
    \E q \in ValidRequests, tier \in {"minio", "s3"}, kept \in BOOLEAN :
        LET row == StoredRow(1, q) IN
        /\ tier = "minio" => kept
        /\ files = (1 :> (IF tier = "s3" THEN SyncedRow(row) ELSE row))
        /\ nextId = 2
        /\ minio = IF kept THEN (StoredKey(1, q) :> q.content) ELSE EmptyBucket
        /\ s3 = IF tier = "s3" THEN (S3ObjectKey(row) :> q.content) ELSE EmptyBucket
        /\ uuids = 1
        /\ uploads = 0
        /\ req = [r \in Reqs |-> IdleReq]
        /\ resp = NoResponse
        /\ job = IdleJob
        /\ job2 = IdleJob

\* uploads and deletions while the job is not running
NextStored == Upload(1) \/ Delete(1)

SpecStored == InitStored /\ [][NextStored]_vars

\* the scheduler takes the running sync job process off the processor and puts
\* the other one on: two runs started by overlapping cron invocations
Switch ==
    /\ job' = job2
    /\ job2' = job
    /\ UNCHANGED <<files, minio, s3, apiVars>>

\* two overlapping runs of the job on the table the uploads left: each of the
\* two processes makes one run, and neither is killed
NextOverlap ==
    \/ JobStart /\ job = IdleJob
    \/ JobFetch
    \/ JobPut
    \/ JobCommit
    \/ JobCleanup
    \/ Switch

SpecOverlap == InitQuiet /\ [][NextOverlap]_vars

(* ------------------------------ claims ---------------------------------- *)
\* the key lies in the namespace of the user: "user-{user_id}/..."
OwnedBy(key, user_id) == SubSeq(key, 1, 3) = <<"user-", ToString(user_id), "/">>

\* some object of the bucket, in the owner's namespace, holds the bytes of the row
HasCopy(bucket, file) ==
    \E k \in DOMAIN bucket :
        OwnedBy(k, file.user_id) /\ compute_file_hash(bucket[k]) = file.content_hash

\* C1: the system never has zero live copies of a tracked object: in every
\* reachable state every row of files has its bytes stored in MinIO or in S3
C1_LiveCopy == \A i \in DOMAIN files : HasCopy(minio, files[i]) \/ HasCopy(s3, files[i])

\* the rows of a table that have the owner and the content hash of row i
SameContent(table, i) ==
    {j \in DOMAIN table : /\ table[j].user_id = table[i].user_id
                          /\ table[j].content_hash = table[i].content_hash}

\* the last response is a DuplicateFileResponse
IsDuplicateResponse(rs) == rs.status = 201 /\ rs.is_duplicate

\* this step answers a valid upload with a DuplicateFileResponse
DedupHitStep == uploads' = uploads + 1 /\ IsDuplicateResponse(resp')

\* C2: when one owner uploads the same bytes twice in sequence there is exactly
\* one row for them and the second upload is answered with a duplicate response
\* that references the row the first upload created, and adds no stored object,
\* whether that row is still in MinIO or already in S3
C2_SequentialDedup ==
    /\ [](\A i \in DOMAIN files : SameContent(files, i) = {i})
    /\ [](IsDuplicateResponse(resp) =>
            /\ resp.existing_file.id \in DOMAIN files
            /\ files[resp.existing_file.id].content_hash = resp.existing_file.content_hash
            /\ resp.existing_file.id < nextId)
    /\ [][DedupHitStep =>
            /\ SameContent(files', resp'.existing_file.id) = {resp'.existing_file.id}
            /\ Cardinality(DOMAIN files') = Cardinality(DOMAIN files)
            /\ Cardinality(DOMAIN minio') + Cardinality(DOMAIN s3')
                 = Cardinality(DOMAIN minio) + Cardinality(DOMAIN s3)]_vars

\* a duplicate response for a row that had already been synced to S3
C2_Witness ==
    /\ IsDuplicateResponse(resp)
    /\ resp.existing_file.storage_location = "s3"
    /\ Cardinality(DOMAIN files) = 1

\* C3: a dedup hit changes nothing: no write to either tier and no new row, the
\* table and both buckets are the same before and after the call
C3_HitChangesNothing ==
    [][DedupHitStep => files' = files /\ nextId' = nextId /\ minio' = minio /\ s3' = s3]_vars

\* the second upload was answered as a duplicate of a row still in MinIO
C3_Witness ==
    /\ IsDuplicateResponse(resp)
    /\ resp.existing_file.storage_location = "minio"
    /\ uploads = 2
    /\ DOMAIN minio = {files[resp.existing_file.id].object_key}

\* C4: (owner, content hash) is unique among the rows whose hash is present, also
\* when two uploads of the same bytes by the same owner run concurrently
C4_UniqueOwnerHash ==
    \A i, j \in DOMAIN files :
        (/\ files[i].content_hash # NULL
         /\ files[i].user_id = files[j].user_id
         /\ files[i].content_hash = files[j].content_hash) => i = j

\* C5: tier monotonicity: over uploads, sync runs, failures and re-runs a row's
\* storage_location only ever changes from "minio" to "s3", never back
C5_TierMonotonic ==
    [][\A i \in DOMAIN files \cap DOMAIN files' :
          files'[i].storage_location # files[i].storage_location =>
             files[i].storage_location = "minio" /\ files'[i].storage_location = "s3"]_vars

\* the counters of the run the job is in, or has ended
RunStats(j) ==
    IF j.pc \in Running THEN Aggregate(j.total_stats, j.stats)
    ELSE IF j.pc = "exited" THEN j.total_stats
    ELSE EmptyStats

\* the run recorded an error with this message
HasError(j, e) == \E n \in 1..Len(RunStats(j).errors) : RunStats(j).errors[n][3] = e

\* a row is durable while a run that has not synced anything yet transfers
\* another row
C5_Witness ==
    /\ \E i \in DOMAIN files : files[i].storage_location = "s3" /\ files[i].synced_at # NULL
    /\ job.pc = "put"
    /\ files[job.file.id].storage_location = "minio"
    /\ RunStats(job).succeeded = 0

\* C6: in every reachable state and for every row, synced_at is set if and only
\* if storage_location is "s3"
C6_SyncedAtIffDurable ==
    \A i \in DOMAIN files :
        (files[i].synced_at # NULL) <=> (files[i].storage_location = "s3")

\* one row synced and one row not
C6_Witness ==
    /\ \E i \in DOMAIN files :
          files[i].storage_location = "s3" /\ files[i].synced_at = utcnow
    /\ \E i \in DOMAIN files :
          files[i].storage_location = "minio" /\ files[i].synced_at = NULL

\* C7: in every reachable state the object_key of each row names an object that
\* exists in the tier storage_location states
C7_KeyExistsInTier ==
    \A i \in DOMAIN files :
        IF files[i].storage_location = "minio"
        THEN files[i].object_key \in DOMAIN minio
        ELSE files[i].object_key \in DOMAIN s3

\* the row is entirely in its fast-tier state
FullyFast(row) ==
    /\ row.storage_location = "minio"
    /\ row.access_url = get_minio_presigned_url(row.object_key)
    /\ row.synced_at = NULL

\* the row is entirely in its durable state: the key the transfer wrote, the
\* URL of that key, the time of the transfer
FullyDurable(row) ==
    /\ row.storage_location = "s3"
    /\ row.object_key = S3ObjectKey(row)
    /\ row.access_url = get_s3_public_url(S3ObjectKey(row))
    /\ row.synced_at # NULL

\* C8: the commit of a transfer is all-or-nothing: a persisted row is either in
\* its complete fast-tier state or has tier, object key, access URL and synced_at
\* of the durable copy all together, also after a failed commit or a crash
C8_AllOrNothing == \A i \in DOMAIN files : FullyFast(files[i]) \/ FullyDurable(files[i])

\* this step is the durable upload of the current item failing for good
PutFailedStep == job.pc = "put" /\ job' # job /\ job'.pc \notin {"put", "commit", "idle"}

\* this step is the commit of the current item failing
CommitFailedStep ==
    /\ job.pc = "commit" /\ job' # job /\ job'.pc # "idle"
    /\ RunStats(job').succeeded = RunStats(job).succeeded

\* C9: source retention: when the durable upload of an item fails, or succeeds
\* and the commit fails, the fast-tier object of the row still exists with its
\* bytes, no fast-tier delete is issued for it even with cleanup enabled, the row
\* stays in "minio" and the item is counted as failed
C9_SourceRetention ==
    /\ [][(PutFailedStep \/ CommitFailedStep) =>
            /\ job.file.id \in DOMAIN files'
            /\ files'[job.file.id] = files[job.file.id]
            /\ files'[job.file.id].storage_location = "minio"
            /\ job.file.object_key \in DOMAIN minio'
            /\ minio'[job.file.object_key] = job.file_data
            /\ minio' = minio
            /\ job'.pc # "cleanup"
            /\ RunStats(job').failed = RunStats(job).failed + 1]_vars
    /\ [][\A k \in DOMAIN minio \ DOMAIN minio' :
            \A i \in DOMAIN files :
               files[i].object_key = k => files[i].storage_location = "s3"]_vars

\* a run with cleanup enabled ended after a failed commit: the row is still in
\* "minio" and its object is in both tiers
C9_Witness ==
    /\ job.pc = "exited"
    /\ job.DELETE_FROM_MINIO_AFTER_SYNC
    /\ HasError(job, CommitError)
    /\ \E i \in DOMAIN files :
          /\ files[i].storage_location = "minio"
          /\ files[i].object_key \in DOMAIN minio
          /\ S3ObjectKey(files[i]) \in DOMAIN s3

\* this step is the fetch of the current item failing
FetchFailedStep == job.pc = "item" /\ job' # job /\ job'.pc \notin {"put", "idle"}

\* C10: when the fetch from MinIO fails the item ends failed, the row and the
\* source object are untouched, nothing is written to S3, and the row is still
\* eligible (storage_location = "minio") for the next run
C10_FetchFailure ==
    [][FetchFailedStep =>
         /\ files' = files
         /\ minio' = minio
         /\ s3' = s3
         /\ job'.pc \in {"item", "exited"}
         /\ CurrentId(job) \in Eligible'
         /\ RunStats(job').failed = RunStats(job).failed + 1
         /\ RunStats(job').processed = RunStats(job).processed + 1]_vars

\* a run ended with a failed fetch and S3 is still empty
C10_Witness ==
    /\ job.pc = "exited"
    /\ HasError(job, MinioGetError)
    /\ DOMAIN s3 = {}
    /\ Eligible # {}

\* this step removes an object from MinIO
MinioDeleteStep == DOMAIN minio \ DOMAIN minio' # {}

\* C11: the sync job issues a fast-tier delete only for an item whose commit has
\* succeeded and only with DELETE_FROM_MINIO_AFTER_SYNC enabled; with the flag
\* off a run removes no MinIO object, so the row it has just committed keeps its
\* fast copy
C11_CleanupOnlyAfterCommit ==
    /\ [](job.pc = "cleanup" =>
            /\ job.DELETE_FROM_MINIO_AFTER_SYNC
            /\ files[job.file.id].storage_location = "s3"
            /\ files[job.file.id].synced_at # NULL
            /\ job.stats.succeeded >= 1)
    /\ [][MinioDeleteStep =>
            /\ job.pc = "cleanup"
            /\ job.DELETE_FROM_MINIO_AFTER_SYNC
            /\ DOMAIN minio \ DOMAIN minio' = {files[job.file.id].object_key}
            /\ files[job.file.id].storage_location = "s3"]_vars
    /\ [][(job.pc = "commit" /\ ~job.DELETE_FROM_MINIO_AFTER_SYNC
            /\ files'[job.file.id].storage_location = "s3") =>
            /\ job'.pc # "cleanup"
            /\ minio' = minio
            /\ job.file.object_key \in DOMAIN minio'
            /\ minio'[job.file.object_key] = job.file_data]_vars

\* a run with the flag off has synced the only row and ended: the fast copy is
\* still there, next to the durable one
C11_Witness ==
    /\ job.pc = "exited"
    /\ ~job.DELETE_FROM_MINIO_AFTER_SYNC
    /\ job.total_stats.succeeded = 1
    /\ DOMAIN files = {1}
    /\ files[1].storage_location = "s3"
    /\ files[1].object_key \in DOMAIN minio
    /\ DOMAIN s3 # {}

\* this step is the cleanup of the current item failing: the delete was issued
\* and the object is still there
CleanupFailedStep ==
    /\ job.pc = "cleanup" /\ job' # job /\ job'.pc # "idle"
    /\ files[job.file.id].object_key \in DOMAIN minio'

\* C12: a cleanup failure does not revert the commit and does not fail the item:
\* the row stays in "s3" with synced_at set, the item stays counted in succeeded,
\* failed does not grow and nothing is added to errors
C12_CleanupFailureIsNotFailure ==
    /\ [](job.pc = "cleanup" =>
            job.stats.succeeded + job.stats.failed = job.stats.processed)
    /\ [][CleanupFailedStep =>
            /\ files' = files
            /\ files'[job.file.id].storage_location = "s3"
            /\ files'[job.file.id].synced_at # NULL
            /\ RunStats(job').succeeded = RunStats(job).succeeded
            /\ RunStats(job').failed = RunStats(job).failed
            /\ RunStats(job').errors = RunStats(job).errors
            /\ RunStats(job').processed = RunStats(job).processed]_vars

\* a run with cleanup enabled ended with its only item succeeded and no error,
\* and the MinIO object of the row is still there: the delete failed
C12_Witness ==
    /\ job.pc = "exited"
    /\ job.DELETE_FROM_MINIO_AFTER_SYNC
    /\ job.total_stats = [processed |-> 1, succeeded |-> 1, failed |-> 0, errors |-> <<>>]
    /\ \E i \in DOMAIN files :
          /\ job.files_to_sync = <<i>>
          /\ files[i].storage_location = "s3"
          /\ files[i].object_key \in DOMAIN minio

\* the run ended through the normal end of main
ExitedOk == job.pc = "exited" /\ job.exit_code = 0

NoFastRecord == \A i \in DOMAIN files : files[i].storage_location # "minio"

\* C16: idempotent retry: a run that starts when no row is in "minio" performs
\* no transfer, changes no row and no stored object, and its statistics are zero
C16_IdempotentRetry ==
    [][(job.pc \in {"idle", "exited"} /\ job' # job /\ NoFastRecord) =>
         /\ job'.pc = "exited"
         /\ job'.files_to_sync = <<>>
         /\ job'.total_stats = EmptyStats
         /\ files' = files /\ minio' = minio /\ s3' = s3]_vars

\* after a run that transitioned every row, a second run ended with nothing done
C16_Witness ==
    /\ ExitedOk
    /\ job.total_stats = EmptyStats
    /\ DOMAIN files # {}
    /\ NoFastRecord

\* the last job process was killed
CrashedJob == job.pc = "idle" /\ job # IdleJob

\* the rows of a selection that are in the given tier
InTier(files_to_sync, tier) ==
    {files_to_sync[n] : n \in {m \in 1..Len(files_to_sync) :
                                  files[files_to_sync[m]].storage_location = tier}}

\* C17: crash recovery: after a run over N rows is killed having committed i
\* items, those i rows are in "s3" and the other N - i rows are in "minio" (the
\* first i and the last N - i of the selection when no item had failed); the
\* next run selects exactly the rows in "minio", so of the crashed selection
\* exactly the N - i remaining ones, and a run whose items all succeed leaves
\* none of its rows in "minio"
C17_CrashRecovery ==
    /\ [](CrashedJob =>
            /\ Cardinality(InTier(job.files_to_sync, "s3")) = job.succeeded
            /\ Cardinality(InTier(job.files_to_sync, "minio"))
                  = Len(job.files_to_sync) - job.succeeded
            /\ job.failed = 0 =>
                  \A n \in 1..Len(job.files_to_sync) :
                     files[job.files_to_sync[n]].storage_location =
                         IF n <= job.succeeded THEN "s3" ELSE "minio")
    /\ [][(CrashedJob /\ job'.pc = "item") =>
            /\ {job'.files_to_sync[n] : n \in 1..Len(job'.files_to_sync)}
                  = {i \in DOMAIN files : files[i].storage_location = "minio"}
            /\ Len(job'.files_to_sync)
                  = Cardinality({i \in DOMAIN files : files[i].storage_location = "minio"})
            /\ InTier(job'.files_to_sync, "s3") = {}
            /\ InTier(job.files_to_sync, "minio") \subseteq
                  {job'.files_to_sync[n] : n \in 1..Len(job'.files_to_sync)}]_vars
    /\ []((ExitedOk /\ job.total_stats.failed = 0) =>
            InTier(job.files_to_sync, "minio") = {})

\* a run over two rows was killed after it had committed the first item and
\* before it processed the second
C17_Witness ==
    /\ CrashedJob
    /\ job.at = "item"
    /\ Len(job.files_to_sync) = 2
    /\ job.succeeded = 1
    /\ job.failed = 0
    /\ files[job.files_to_sync[1]].storage_location = "s3"
    /\ files[job.files_to_sync[2]].storage_location = "minio"

\* C18: convergence: when no new upload arrives, under fairly scheduled runs in
\* which fetch, put and commit succeed when retried often enough, whatever
\* crashes and item failures happen on the way, a state with no row in "minio"
\* is reached, and it is kept
C18_Convergence == <>[]NoFastRecord

\* a run over the one row that an earlier run had left behind has ended, and no
\* row is in "minio"
C18_Witness ==
    /\ NoFastRecord
    /\ Cardinality(DOMAIN files) = 2
    /\ ExitedOk
    /\ Len(job.files_to_sync) = 1
    /\ job.total_stats.succeeded = 1

\* C19: the durable put is retried with a bounded attempt count of 3: one call
\* makes at most 3 attempts, returns at the first attempt that succeeds, and
\* fails for good only after 3 consecutive failed attempts
C19_BoundedRetry ==
    /\ [](job.pc = "put" => job.attempt \in 0..(max_retries - 1))
    /\ [][(job.pc = "put" /\ s3' # s3) => job'.pc = "commit"]_vars
    /\ [][(job.pc = "put" /\ job'.pc = "put" /\ job' # job) =>
            job'.attempt = job.attempt + 1 /\ s3' = s3]_vars
    /\ [][PutFailedStep => job.attempt = max_retries - 1]_vars

\* the message of the error the run recorded last
LastError(j) == RunStats(j).errors[Len(RunStats(j).errors)][3]

\* C20: a permanent transport error fails the item at once, without a retry:
\* the failing operation, the fetch from MinIO or the put to S3, is attempted
\* exactly once for that item in the run
C20_PermanentErrorNoRetry ==
    /\ [][FetchFailedStep =>
            \/ job'.pc = "exited"
            \/ job'.pc = "item" /\ <<job'.i, job'.k>> # <<job.i, job.k>>]_vars
    /\ [][(PutFailedStep /\ LastError(job') = S3PutError("AccessDenied")) =>
            job.attempt = 0]_vars

(* ------------------------------ C21 ------------------------------------ *)
\* the step in which delete_file commits the removal of the row it loaded
DeletedStep == req[1].pc = "delete_commit" /\ req'[1].pc = "idle" /\ resp'.status = 200

\* C21: a deletion that met no storage error removes the record and its stored
\* object, whatever the tier: afterwards the record does not exist, no object is
\* at the record's object key in the record's tier, and the object the transfer
\* wrote for a durable record is gone
C21_DeleteRemovesBoth ==
    [][(DeletedStep /\ ~req[1].error_logged) =>
         LET file == req[1].file IN
         /\ file.id \notin DOMAIN files'
         /\ file.storage_location = "minio" => file.object_key \notin DOMAIN minio'
         /\ file.storage_location = "s3" =>
              /\ file.object_key \notin DOMAIN s3'
              /\ S3ObjectKey(file) \notin DOMAIN s3']_vars

(* ------------------------------ C22 ------------------------------------ *)
\* the step in which delete_file issued the storage delete and the object is
\* still there
StorageDeleteFailedStep ==
    /\ req[1].pc = "delete_storage"
    /\ req' # req
    /\ LET file == req[1].file IN
       \/ file.storage_location = "minio" /\ file.object_key \in DOMAIN minio'
       \/ file.storage_location = "s3" /\ file.object_key \in DOMAIN s3'

\* C22: a failed storage delete, in either tier, does not stop the deletion: the
\* failure is logged, the handler goes on to the database, and the call that
\* logged it still removes the record and answers 200 unless the database
\* itself fails
C22_BestEffortStorageDelete ==
    /\ [][StorageDeleteFailedStep =>
            /\ req'[1].pc = "delete_commit"
            /\ req'[1].error_logged
            /\ files' = files /\ resp' = resp]_vars
    /\ [][(req[1].pc = "delete_commit" /\ req' # req) =>
            \/ /\ resp'.status = 200
               /\ resp'.error_logged = req[1].error_logged
               /\ req[1].file.id \notin DOMAIN files'
            \/ resp'.status = 500 /\ files' = files]_vars
    /\ [](req[1].pc = "delete_commit" => ENABLED (DeleteCommit(1) /\ resp'.status = 200))

\* a deletion answered 200 although the storage delete failed: the row is gone
\* and the object is still in its tier
C22_Witness ==
    /\ resp.status = 200
    /\ "error_logged" \in DOMAIN resp
    /\ resp.error_logged
    /\ resp.file_id \notin DOMAIN files
    /\ DOMAIN minio \cup DOMAIN s3 # {}

(* ------------------------------ C23 ------------------------------------ *)
\* C23: the transfer is idempotent on a record that is still in the fast tier:
\* whatever an earlier attempt left behind, an attempt starts with a fetch of the
\* bytes in MinIO, and when its commit succeeds the record goes from its
\* untouched fast state to the durable state computed from that state alone,
\* its bytes are under its durable key, and S3 holds no object besides those at
\* the durable keys of the records (never more objects than records)
C23_TransferIdempotent ==
    /\ [][(job.pc = "item" /\ job'.pc \in Running \ {"item"}) =>
            /\ job'.pc = "put"
            /\ job'.file = files[CurrentId(job)]
            /\ job'.file_data = minio[job'.file.object_key]]_vars
    /\ [][CommitOk =>
            LET row == files[job.file.id]
                key == S3ObjectKey(row)
            IN  /\ FullyFast(row)
                /\ files'[row.id] = [row EXCEPT !.storage_location = "s3",
                                                !.access_url = get_s3_public_url(key),
                                                !.synced_at = utcnow]
                /\ s3'[key] = minio[row.object_key]
                /\ s3' = s3]_vars
    /\ [](/\ \A k \in DOMAIN s3 : \E i \in DOMAIN files : k = S3ObjectKey(files[i])
          /\ Cardinality(DOMAIN s3) <= Cardinality(DOMAIN files))

\* the transfer of the only record is at its put again, with the bytes fetched
\* again, while the durable object of an earlier attempt that did not commit is in S3
C23_Witness ==
    /\ job.pc = "put"
    /\ job.attempt = 0
    /\ Cardinality(DOMAIN files) = 1
    /\ S3ObjectKey(job.file) \in DOMAIN s3
    /\ s3[S3ObjectKey(job.file)] = job.file_data
    /\ FullyFast(files[job.file.id])

(* ------------------------------ C24 ------------------------------------ *)
\* C24: the durable key a transfer writes is the fast-tier object key of the
\* record, user-{owner}/{uuid}-{original filename}, for every filename an upload
\* can have: when the put of an item has succeeded, the object is in S3 at the
\* record's object key
C24_NamingContinuity ==
    job.pc = "commit" =>
      /\ \E n \in 1..uuids :
           job.file.object_key =
             UserScopedKey(job.file.user_id, UniqueFilename(n, job.file.original_filename))
      /\ S3ObjectKey(job.file) = job.file.object_key
      /\ job.file.object_key \in DOMAIN s3

(* ------------------------------ C29 ------------------------------------ *)
\* C29: two records never share a durable key: a successful put of one record
\* does not write to the durable key of another record of the same owner that
\* has a different fast key and is already in the durable tier
C29_DistinctDurableKeys ==
    [][PutOk =>
         \A i \in DOMAIN files :
            (/\ i # job.file.id
             /\ files[i].user_id = job.file.user_id
             /\ files[i].object_key # job.file.object_key
             /\ files[i].storage_location = "s3")
            => S3ObjectKey(files[i]) # S3ObjectKey(job.file)]_vars

(* ------------------------------ C25 ------------------------------------ *)
\* the steps of one item, in the order of the code
ItemOrder ==
    {<<"item", "put">>, <<"put", "put">>, <<"put", "commit">>, <<"commit", "cleanup">>}

\* C25: an item goes through fetch, put, commit and the optional delete in that
\* order: the put is attempted only with the bytes a successful fetch returned,
\* the commit only when the put has stored them, the delete only when the commit
\* has made the row durable; and every item ends in exactly one outcome, counted
\* as succeeded exactly when its commit succeeded and as failed otherwise
C25_ItemStepOrder ==
    /\ [](job.pc = "put" =>
            /\ job.file.object_key \in DOMAIN minio
            /\ job.file_data = minio[job.file.object_key])
    /\ [](job.pc = "commit" =>
            /\ S3ObjectKey(job.file) \in DOMAIN s3
            /\ s3[S3ObjectKey(job.file)] = job.file_data)
    /\ [](job.pc = "cleanup" =>
            /\ job.DELETE_FROM_MINIO_AFTER_SYNC
            /\ files[job.file.id].storage_location = "s3")
    /\ [][(job.pc \in Running /\ job'.pc \in Running /\ job' # job
           /\ <<job'.i, job'.k>> = <<job.i, job.k>>) =>
            <<job.pc, job'.pc>> \in ItemOrder]_vars
    /\ [](job.pc \in Running =>
            RunStats(job).succeeded + RunStats(job).failed =
              job.i + job.k - (IF job.pc = "cleanup" THEN 0 ELSE 1))
    /\ [][(job.pc \in Running /\ job'.pc \in Running \cup {"exited"}) =>
            LET ds == RunStats(job').succeeded - RunStats(job).succeeded
                df == RunStats(job').failed - RunStats(job).failed
            IN  /\ <<ds, df>> \in {<<0, 0>>, <<1, 0>>, <<0, 1>>}
                /\ ds = 1 <=> CommitOk
                /\ df = 1 => job.pc # "cleanup" /\ files' = files]_vars

\* a run of two items ended with one item committed and the other failed
C25_Witness ==
    /\ ExitedOk
    /\ job.total_stats.processed = 2
    /\ job.total_stats.succeeded = 1
    /\ job.total_stats.failed = 1
    /\ \E n \in 1..2 : files[job.files_to_sync[n]].storage_location = "s3"
    /\ \E n \in 1..2 : files[job.files_to_sync[n]].storage_location = "minio"

(* ------------------------------ C26 ------------------------------------ *)
\* the elements of a sequence
Range(q) == {q[n] : n \in 1..Len(q)}

C27_DedupPerOwner ==
    /\ [][DedupHitStep =>
            /\ resp'.existing_file.id \in DOMAIN files
            /\ files[resp'.existing_file.id].user_id = resp'.user_id]_vars
    /\ [][(req[1].pc = "put" /\ req' # req) => Matching(req[1].user_id, req[1].content_hash) = {}]_vars
    /\ [](\A i \in DOMAIN files : OwnedBy(files[i].object_key, files[i].user_id))
    /\ [](\A i, j \in DOMAIN files :
            files[i].user_id # files[j].user_id => files[i].object_key # files[j].object_key)

\* two owners uploaded the same bytes: each has a record and an object under
\* its own prefix, and the second upload was answered as a new file
C27_Witness ==
    /\ \E i, j \in DOMAIN files :
         /\ files[i].user_id # files[j].user_id
         /\ files[i].content_hash = files[j].content_hash
         /\ files[i].object_key \in DOMAIN minio
         /\ files[j].object_key \in DOMAIN minio
         /\ minio[files[i].object_key] = minio[files[j].object_key]
    /\ resp.status = 201
    /\ ~resp.is_duplicate

(* ------------------------------ C28 ------------------------------------ *)
\* C28: on a dedup miss the bytes are written to MinIO under the uploading
\* user's prefix before any record names them, and the commit then adds exactly
\* one record: in the fast tier, with synced_at unset, with the digest of the
\* stored bytes as content hash and with the key of the object just written,
\* which is in MinIO when the record appears
C28_MissCreatesFastRecord ==
    /\ [][(req[1].pc = "put" /\ req'[1].pc = "commit") =>
            LET key == req'[1].object_key IN
            /\ key \notin DOMAIN minio
            /\ minio' = Put(minio, key, req[1].content)
            /\ OwnedBy(key, req[1].user_id)
            /\ files' = files
            /\ \A i \in DOMAIN files : files[i].object_key # key]_vars
    /\ [][DOMAIN files' # DOMAIN files =>
            /\ req[1].pc = "commit"
            /\ DOMAIN files' = DOMAIN files \cup {nextId}
            /\ nextId \notin DOMAIN files
            /\ \A i \in DOMAIN files : files'[i] = files[i]
            /\ LET row == files'[nextId] IN
               /\ row.user_id = req[1].user_id
               /\ row.storage_location = "minio"
               /\ row.synced_at = NULL
               /\ row.object_key = req[1].object_key
               /\ row.object_key \in DOMAIN minio
               /\ minio' = minio
               /\ minio[row.object_key] = req[1].content
               /\ row.content_hash = compute_file_hash(minio[row.object_key])
               /\ resp' = [status |-> 201, is_duplicate |-> FALSE, id |-> row.id,
                           storage_location |-> "minio"]]_vars

\* an upload was answered as new: its record is in the fast tier, never synced,
\* and its object is in MinIO with the bytes of the recorded digest
C28_Witness ==
    /\ resp.status = 201
    /\ ~resp.is_duplicate
    /\ resp.id \in DOMAIN files
    /\ FullyFast(files[resp.id])
    /\ files[resp.id].object_key \in DOMAIN minio
    /\ compute_file_hash(minio[files[resp.id].object_key]) = files[resp.id].content_hash
    /\ nextId = resp.id + 1

(* ------------------------------ C30 ------------------------------------ *)
\* the deletion of record id was answered 200 without a storage error, and a
\* sync run that had selected the record has ended
DeletedAndSynced(id) ==
    /\ req[1].pc = "idle"
    /\ resp.status = 200
    /\ "file_id" \in DOMAIN resp
    /\ resp.file_id = id
    /\ ~resp.error_logged
    /\ job.pc = "exited"
    /\ id \in Range(job.files_to_sync)

\* C30: when the deletion of a record and the sync job's transfer of the same
\* record interleave, then once both have finished the record does not exist,
\* no object of it is left in MinIO or in S3, and the run has ended normally
\* with every item counted as succeeded or failed (stated for the only record
\* and the only object the system ever stored)
C30_DeleteDuringSync ==
    (DeletedAndSynced(1) /\ nextId = 2 /\ uuids = 1) =>
        /\ 1 \notin DOMAIN files
        /\ minio = EmptyBucket
        /\ s3 = EmptyBucket
        /\ job.exit_code = 0
        /\ job.total_stats.processed = Len(job.files_to_sync)
        /\ job.total_stats.succeeded + job.total_stats.failed = job.total_stats.processed

(* ------------------------------ C33 ------------------------------------ *)
\* the number of rows of q that the table has in the durable tier
DurableIn(table, q) ==
    Cardinality({n \in 1..Len(q) : table[q[n]].storage_location = "s3"})

\* the step that ends a batch: the next batch starts or the run returns
BatchEndStep ==
    /\ job.pc \in Running
    /\ \/ job'.pc \in Running /\ job'.i # job.i
       \/ job'.pc = "exited"

C34_PutOnceNoOrphan ==
    /\ [][(req[1].pc = "put" /\ req' # req) =>
            \/ /\ req'[1].pc = "commit"
               /\ req'[1].object_key \in DOMAIN minio'
               /\ files' = files
            \/ /\ req'[1].pc = "idle"
               /\ resp' = HttpError(503)
               /\ files' = files]_vars
    /\ [](req[1].pc = "idle" =>
            \A k \in DOMAIN minio : \E i \in DOMAIN files : files[i].object_key = k)

(* ------------------------------ C32 ------------------------------------ *)
\* C32: after a deletion no copy of the record's bytes is left in either tier,
\* stated for the case the claim singles out: when a record that a finished run
\* with the cleanup off has made durable is deleted without a storage error,
\* nothing is left at the record's object key, neither in S3 nor in MinIO
C32_DeleteLeavesNoCopy ==
    [][(/\ DeletedStep
        /\ ~req[1].error_logged
        /\ req[1].file.storage_location = "s3"
        /\ job.pc = "exited"
        /\ ~job.DELETE_FROM_MINIO_AFTER_SYNC
        /\ req[1].file.id \in Range(job.files_to_sync)) =>
         /\ req[1].file.object_key \notin DOMAIN s3'
         /\ req[1].file.object_key \notin DOMAIN minio']_vars

(* ------------------------------ C35 ------------------------------------ *)
\* C35: a deleted record no longer counts for deduplication, whatever tier it
\* was in: the deletion removes the row, a duplicate is only reported with a row
\* that is in the table, never with the record just deleted, and the upload of
\* the same bytes that follows stores a new object and adds a new record, in
\* the fast tier, under a new id and a new key
C35_ReuploadAfterDelete ==
    /\ [][DeletedStep => req[1].file.id \notin DOMAIN files']_vars
    /\ [][DedupHitStep =>
            /\ resp'.existing_file.id \in DOMAIN files
            /\ (resp.status = 200 /\ "file_id" \in DOMAIN resp)
                  => resp'.existing_file.id # resp.file_id]_vars
    /\ [][(uploads' = uploads + 1 /\ req'[1].pc = "put") =>
            Matching(req'[1].user_id, req'[1].content_hash) = {}]_vars
    /\ [][(req[1].pc = "commit" /\ DOMAIN files' # DOMAIN files) =>
            LET row == files'[nextId] IN
            /\ DOMAIN files' = DOMAIN files \cup {nextId}
            /\ nextId > 1
            /\ FullyFast(row)
            /\ row.object_key \in DOMAIN minio
            /\ minio[row.object_key] = req[1].content
            /\ row.object_key \notin {StoredKey(1, q) : q \in ValidRequests}]_vars

\* the first record was deleted while the storage delete failed, and the same
\* owner has uploaded the same bytes again: a new record in the fast tier with
\* an object of its own, next to the object the deleted record left
C35_Witness ==
    /\ 1 \notin DOMAIN files
    /\ 2 \in DOMAIN files
    /\ FullyFast(files[2])
    /\ files[2].object_key \in DOMAIN minio
    /\ resp.status = 201
    /\ ~resp.is_duplicate
    /\ \E q \in ValidRequests :
         /\ q.user_id = files[2].user_id
         /\ compute_file_hash(q.content) = files[2].content_hash
         /\ StoredKey(1, q) \in DOMAIN minio
         /\ minio[StoredKey(1, q)] = q.content

(* ------------------------------ C31 ------------------------------------ *)
\* the records a run has selected
Selected(j) == IF "files_to_sync" \in DOMAIN j THEN Range(j.files_to_sync) ELSE {}

\* the records that both runs have selected
SelectedByBoth == Selected(job) \cap Selected(job2)

\* the row is durable and its bytes are in S3 under the key the transfer writes
DurableObjectPresent(row) ==
    /\ S3ObjectKey(row) \in DOMAIN s3
    /\ compute_file_hash(s3[S3ObjectKey(row)]) = row.content_hash

\* C31: two overlapping runs that selected the same records do no harm, with
\* the cleanup on or off: at all times every such record has its bytes in MinIO
\* or in S3, none goes from the durable tier back to the fast tier, and every
\* one that is durable has its object in S3
C31_OverlappingRuns ==
    /\ [](\A i \in SelectedByBoth : HasCopy(minio, files[i]) \/ HasCopy(s3, files[i]))
    /\ [][\A i \in SelectedByBoth :
            files[i].storage_location = "s3" => files'[i].storage_location = "s3"]_vars
    /\ [](\A i \in SelectedByBoth :
            files[i].storage_location = "s3" => DurableObjectPresent(files[i]))

====
